---- MODULE Spec2Model ----
(***************************************************************************)
(* Model of cantools' C source generator                                   *)
(* (cantools/subparsers/generate_c_source.py) and of the C code it emits.  *)
(*                                                                         *)
(* A message is a record [length, signals]; a signal is a record           *)
(* [name, start, length, byte_order, is_signed, is_float, is_multiplexer,  *)
(* multiplexer_ids].  _generate_message turns a message into struct        *)
(* members, encode lines and decode lines; the emitted encode and decode   *)
(* functions are then executed with C semantics.                           *)
(*                                                                         *)
(* Integer values of the C program are sets of bit positions (bit 0 is the *)
(* least significant one), so that 64-bit storage keeps its full width.    *)
(* Signal names are lower-case identifiers, on which the generator's       *)
(* _camel_to_snake_case is the identity.                                   *)
(***************************************************************************)
EXTENDS Integers, Sequences, FiniteSets, TLC

VARIABLES message, pc, out, env, src, dst0, dst, enc_ret, dec_size, rec0, rec, acc, dec_ret,
          pending, shuf

vars == <<message, pc, out, env, src, dst0, dst, enc_ret, dec_size, rec0, rec, acc, dec_ret,
          pending, shuf>>

(***************************************************************************)
(* Bounds of the model.                                                    *)
(***************************************************************************)
\* Largest start bit of the fields drawn by InitField.
MaxStart == 15
\* Largest number of signals of the messages drawn by Init.
MaxSignals == 2

(***************************************************************************)
(* Program constants.                                                      *)
(***************************************************************************)
\* Longest supported signal (the last elif of the type selection).
MaxSignalLength == 64
\* The header's fallback definition of EINVAL.
EINVAL_FALLBACK == -22
\* errno.h's EINVAL, when the platform's headers define it.
EINVAL_ERRNO == 22

(***************************************************************************)
(* Bit-level helpers.                                                      *)
(***************************************************************************)
Pow2(n) == 2 ^ n

\* The bit positions set in a byte-sized mask (an integer 0..255).
MaskBits(mask) == {b \in 0..7 : (mask \div Pow2(b)) % 2 = 1}

\* The integer value of a set of bit positions within one byte.
ByteValue(bits) ==
    LET Bit(b) == IF b \in bits THEN Pow2(b) ELSE 0
    IN Bit(0) + Bit(1) + Bit(2) + Bit(3) + Bit(4) + Bit(5) + Bit(6) + Bit(7)

\* The set of bit positions of a non-negative integer below 2^16.
BitsOf(n) == {b \in 0..15 : (n \div Pow2(b)) % 2 = 1}

(***************************************************************************)
(* _signal_segments: the (index, shift, mask) triples of one signal.       *)
(* A shift string '<< n' / '>> n' is the record [dir, amount].             *)
(***************************************************************************)
FormatShift(shift, invert_shift) ==
    IF invert_shift
    THEN IF shift < 0 THEN [dir |-> "<<", amount |-> -shift]
                      ELSE [dir |-> ">>", amount |-> shift]
    ELSE IF shift < 0 THEN [dir |-> ">>", amount |-> -shift]
                      ELSE [dir |-> "<<", amount |-> shift]

\* SegmentStep with the little-endian masks left at bit 0 (no "mask <<= pos").
SegmentStepMaskUnshifted(signal, pos, left) ==
    IF signal.byte_order = "big_endian"
    THEN IF left > pos + 1
         THEN [length |-> pos + 1,
               pos    |-> 7,
               shift  |-> -(left - (pos + 1)),
               mask   |-> Pow2(pos + 1) - 1]
         ELSE [length |-> left,
               pos    |-> pos,
               shift  |-> IF pos - left >= 0 THEN pos - left + 1 ELSE 8 - left,
               mask   |-> (Pow2(left) - 1) * Pow2(pos - left + 1)]
    ELSE IF left >= 8 - pos
         THEN [length |-> 8 - pos,
               pos    |-> 0,
               shift  |-> (left - signal.length) + pos,
               mask   |-> Pow2(8 - pos) - 1]
         ELSE [length |-> left,
               pos    |-> pos,
               shift  |-> pos,
               mask   |-> Pow2(left) - 1]

\* One iteration of the while loop: the segment's length, shift and mask and
\* the value of pos after it.
SegmentStep(signal, pos, left) ==
    IF signal.byte_order = "big_endian"
    THEN IF left > pos + 1
         THEN [length |-> pos + 1,
               pos    |-> 7,
               shift  |-> -(left - (pos + 1)),
               mask   |-> Pow2(pos + 1) - 1]
         ELSE [length |-> left,
               pos    |-> pos,
               shift  |-> IF pos - left >= 0 THEN pos - left + 1 ELSE 8 - left,
               mask   |-> (Pow2(left) - 1) * Pow2(pos - left + 1)]
    ELSE IF left >= 8 - pos
         THEN [length |-> 8 - pos,
               pos    |-> 0,
               shift  |-> (left - signal.length) + pos,
               mask   |-> (Pow2(8 - pos) - 1) * Pow2(pos)]
         ELSE [length |-> left,
               pos    |-> pos,
               shift  |-> pos,
               mask   |-> (Pow2(left) - 1) * Pow2(pos)]

RECURSIVE SegmentLoop(_, _, _, _, _)
SegmentLoop(signal, invert_shift, index, pos, left) ==
    IF left <= 0
    THEN << >>
    ELSE LET s == SegmentStep(signal, pos, left)
         IN <<[index |-> index,
               shift |-> FormatShift(s.shift, invert_shift),
               mask  |-> s.mask]>>
            \o SegmentLoop(signal, invert_shift, index + 1, s.pos, left - s.length)

SignalSegments(signal, invert_shift) ==
    SegmentLoop(signal, invert_shift, signal.start \div 8, signal.start % 8,
                signal.length)

(***************************************************************************)
(* _generate_signal: the struct member of one signal, or a warning.        *)
(***************************************************************************)
\* TypeLength with "<" for "<=" in the chain.
TypeLengthStrict(length) ==
    IF length < 8 THEN 8
    ELSE IF length < 16 THEN 16
    ELSE IF length < 32 THEN 32
    ELSE IF length < MaxSignalLength THEN 64
    ELSE 0

\* The width chosen by the if/elif chain on signal.length; 0 stands for the
\* chain's else branch (no type).
TypeLength(length) ==
    IF length <= 8 THEN 8
    ELSE IF length <= 16 THEN 16
    ELSE IF length <= 32 THEN 32
    ELSE IF length <= MaxSignalLength THEN 64
    ELSE 0

BaseTypeName(type_length) ==
    CASE type_length = 8  -> "int8_t"
      [] type_length = 16 -> "int16_t"
      [] type_length = 32 -> "int32_t"
      [] type_length = 64 -> "int64_t"

GenerateSignal(signal) ==
    IF signal.is_multiplexer \/ signal.multiplexer_ids # {}
    THEN [rejected |-> TRUE,
          warning  |-> "warning: Multiplexed signals are not yet supported."]
    ELSE IF signal.is_float
    THEN [rejected |-> TRUE,
          warning  |-> "warning: Float signals are not yet supported."]
    ELSE IF TypeLength(signal.length) = 0
    THEN [rejected |-> TRUE,
          warning  |-> "warning: Signal lengths over 64 bits are not yet supported."]
    ELSE [rejected |-> FALSE,
          member   |-> [type_name |-> IF signal.is_signed
                                      THEN BaseTypeName(TypeLength(signal.length))
                                      ELSE "u" \o BaseTypeName(TypeLength(signal.length)),
                        name      |-> signal.name]]

(***************************************************************************)
(* _format_encode_code: one line                                           *)
(*     dst_p[index] |= ((src_p->name shift) & mask);                       *)
(* per segment, grouped by byte index, the indices ascending.              *)
(***************************************************************************)
EncodeLine(signal, segment) ==
    [index |-> segment.index,
     name  |-> signal.name,
     shift |-> segment.shift,
     mask  |-> segment.mask]

\* The lines in the order the two nested for loops append them.
RECURSIVE EncodeLinesAppended(_)
EncodeLinesAppended(signals) ==
    IF signals = << >>
    THEN << >>
    ELSE LET segs == SignalSegments(Head(signals), FALSE)
         IN [k \in 1..Len(segs) |-> EncodeLine(Head(signals), segs[k])]
            \o EncodeLinesAppended(Tail(signals))

\* code += code_per_index[index] for the indices from lo to hi, ascending.
RECURSIVE JoinByIndex(_, _, _)
JoinByIndex(lines, lo, hi) ==
    IF lo > hi
    THEN << >>
    ELSE LET AtIndex(l) == l.index = lo
         IN SelectSeq(lines, AtIndex) \o JoinByIndex(lines, lo + 1, hi)

SeqMax(S) == CHOOSE x \in S : \A y \in S : y <= x
SeqMin(S) == CHOOSE x \in S : \A y \in S : x <= y

\* FormatEncodeCode without the grouping by index: the lines as appended.
FormatEncodeCodeAppended(msg) == EncodeLinesAppended(msg.signals)

FormatEncodeCode(msg) ==
    LET lines   == EncodeLinesAppended(msg.signals)
        indices == {lines[k].index : k \in 1..Len(lines)}
    IN IF indices = {}
       THEN << >>
       ELSE JoinByIndex(lines, SeqMin(indices), SeqMax(indices))

(***************************************************************************)
(* _format_decode_code: per signal, one line                               *)
(*     dst_p->name |= ((uint<type_length>_t)(src_p[index] & mask) shift);  *)
(* per segment, then the sign extension of a signed signal.  The result is *)
(* [raised, code]; type_length is a local of the function that keeps its   *)
(* value from one signal to the next (0: not yet bound).                   *)
(***************************************************************************)
DecodeLine(signal, type_length, segment) ==
    [kind        |-> "or",
     name        |-> signal.name,
     type_length |-> type_length,
     index       |-> segment.index,
     mask        |-> segment.mask,
     shift       |-> segment.shift]

\* SIGN_EXTENSION_FMT with shift = length - 1 and
\* mask = ((1 << (type_length - length)) - 1) << length, as its set of bits.
SignExtension(signal, type_length) ==
    [kind  |-> "sign_extend",
     name  |-> signal.name,
     shift |-> signal.length - 1,
     mask  |-> signal.length .. (type_length - 1)]

RECURSIVE DecodeLoop(_, _, _)
DecodeLoop(signals, type_length, code) ==
    IF signals = << >>
    THEN [raised |-> "none", code |-> code]
    ELSE LET signal == Head(signals)
             tl     == IF TypeLength(signal.length) # 0
                       THEN TypeLength(signal.length)
                       ELSE type_length
             segs   == SignalSegments(signal, TRUE)
             lines  == [k \in 1..Len(segs) |-> DecodeLine(signal, tl, segs[k])]
         IN IF tl = 0 /\ Len(segs) > 0
            THEN [raised |-> "UnboundLocalError", code |-> code]
            ELSE IF signal.is_signed /\ tl - signal.length < 0
            THEN [raised |-> "ValueError", code |-> code \o lines]
            ELSE DecodeLoop(Tail(signals), tl,
                            code \o lines \o
                            (IF signal.is_signed
                             THEN <<SignExtension(signal, tl)>>
                             ELSE << >>))

FormatDecodeCode(msg) ==
    LET r == DecodeLoop(msg.signals, 0, << >>)
    IN IF r.raised = "none" /\ r.code = << >>
       THEN [raised |-> "IndexError", code |-> << >>]
       ELSE r

(***************************************************************************)
(* _generate_message: the struct members, the warnings printed, and the    *)
(* bodies of the encode and decode functions.                              *)
(***************************************************************************)
RECURSIVE Members(_)
Members(signals) ==
    IF signals = << >>
    THEN << >>
    ELSE LET g == GenerateSignal(Head(signals))
         IN (IF g.rejected THEN << >> ELSE <<g.member>>) \o Members(Tail(signals))

RECURSIVE Warnings(_)
Warnings(signals) ==
    IF signals = << >>
    THEN << >>
    ELSE LET g == GenerateSignal(Head(signals))
         IN (IF g.rejected THEN <<g.warning>> ELSE << >>) \o Warnings(Tail(signals))

GenerateMessage(msg) ==
    LET decode == FormatDecodeCode(msg)
    IN IF decode.raised # "none"
       THEN [raised         |-> decode.raised,
             warnings       |-> Warnings(msg.signals),
             members        |-> << >>,
             encode_code    |-> << >>,
             decode_code    |-> << >>,
             message_length |-> msg.length]
       ELSE [raised         |-> "none",
             warnings       |-> Warnings(msg.signals),
             members        |-> Members(msg.signals),
             encode_code    |-> FormatEncodeCode(msg),
             decode_code    |-> decode.code,
             message_length |-> msg.length]

(***************************************************************************)
(* The C semantics of the emitted code.  A struct is a function from       *)
(* member names to values, a buffer a function from 0..size-1 to bytes.    *)
(***************************************************************************)
TypeWidth(type_name) ==
    CASE type_name \in {"int8_t", "uint8_t"}   -> 8
      [] type_name \in {"int16_t", "uint16_t"} -> 16
      [] type_name \in {"int32_t", "uint32_t"} -> 32
      [] type_name \in {"int64_t", "uint64_t"} -> 64

TypeSigned(type_name) == type_name \in {"int8_t", "int16_t", "int32_t", "int64_t"}

MemberNames(members) == {members[k].name : k \in 1..Len(members)}

MemberType(members, name) ==
    LET k == CHOOSE i \in 1..Len(members) : members[i].name = name
    IN members[k].type_name

\* The integer promotions: an operand narrower than int is computed as int.
PromotedWidth(width) == IF width < 32 THEN 32 ELSE width

Promote(value, width, signed) ==
    IF signed /\ (width - 1) \in value
    THEN value \cup (width .. (PromotedWidth(width) - 1))
    ELSE value

\* << keeps the low width bits, of a negative operand too (two's complement).
ShiftLeft(value, n, width) == {b + n : b \in value} \cap (0 .. (width - 1))

\* >> of a signed operand copies the sign bit in, as compilers implement it.
ShiftRight(value, n, width, signed) ==
    {b - n : b \in {x \in value : x >= n}}
    \cup (IF signed /\ (width - 1) \in value
          THEN (width - n) .. (width - 1)
          ELSE {})

\* dst_p[index] |= ((src_p->name shift) & mask);
ApplyEncodeLine(buf, line, record, members) ==
    LET type_name == MemberType(members, line.name)
        width     == PromotedWidth(TypeWidth(type_name))
        signed    == TypeSigned(type_name)
        operand   == Promote(record[line.name], TypeWidth(type_name), signed)
        shifted   == IF line.shift.dir = "<<"
                     THEN ShiftLeft(operand, line.shift.amount, width)
                     ELSE ShiftRight(operand, line.shift.amount, width, signed)
    IN IF line.index \in DOMAIN buf
       THEN [buf EXCEPT ![line.index] = @ \cup (shifted \cap MaskBits(line.mask))]
       ELSE buf

RECURSIVE RunEncodeCode(_, _, _, _)
RunEncodeCode(code, buf, record, members) ==
    IF code = << >>
    THEN buf
    ELSE RunEncodeCode(Tail(code),
                       ApplyEncodeLine(buf, Head(code), record, members),
                       record, members)

\* memset(&dst_p[0], 0, message_length);
ZeroFilled(buf, message_length) ==
    [i \in DOMAIN buf |-> IF i < message_length THEN {} ELSE buf[i]]

\* The macro EINVAL in the emitted source: errno.h's when a header included
\* before the #ifndef defines it, the header's own fallback otherwise.
EINVAL(environment) ==
    IF environment.einval_defined THEN EINVAL_ERRNO ELSE EINVAL_FALLBACK

\* return (-EINVAL);
ErrorReturn(environment) == 0 - EINVAL(environment)

\* The emitted <message>_encode(dst_p, src_p, size).
EncodeFunction(output, buf, record, size, environment) ==
    IF size < output.message_length
    THEN [ret |-> ErrorReturn(environment), dst |-> buf]
    ELSE [ret |-> output.message_length,
          dst |-> RunEncodeCode(output.encode_code,
                                ZeroFilled(buf, output.message_length),
                                record, output.members)]

\* The bits of the int constant (1 << shift).  A shift of 32 or more is
\* undefined: a build folds it to 0 or shifts by the count modulo 32.
SignTestBits(shift, environment) ==
    IF shift < 31 THEN {shift}
    ELSE IF shift = 31 THEN 31 .. 63
    ELSE IF environment.wide_shift = "zero" THEN {}
    ELSE {shift % 32}

\* One line of the decode body, on the struct being filled.
ApplyDecodeLine(record, line, wire, members, environment) ==
    LET type_name == MemberType(members, line.name)
        width     == TypeWidth(type_name)
        value     == record[line.name]
    IN IF line.kind = "or"
       THEN LET byte    == IF line.index \in DOMAIN wire THEN wire[line.index] ELSE {}
                operand == (byte \cap MaskBits(line.mask)) \cap (0 .. (line.type_length - 1))
                cwidth  == PromotedWidth(line.type_length)
                shifted == IF line.shift.dir = "<<"
                           THEN ShiftLeft(operand, line.shift.amount, cwidth)
                           ELSE ShiftRight(operand, line.shift.amount, cwidth, FALSE)
            IN [record EXCEPT ![line.name] = (@ \cup shifted) \cap (0 .. (width - 1))]
       ELSE IF Promote(value, width, TypeSigned(type_name))
                  \cap SignTestBits(line.shift, environment) # {}
            THEN [record EXCEPT ![line.name] = (@ \cup line.mask) \cap (0 .. (width - 1))]
            ELSE record

RECURSIVE RunDecodeCode(_, _, _, _, _)
RunDecodeCode(code, record, wire, members, environment) ==
    IF code = << >>
    THEN record
    ELSE RunDecodeCode(Tail(code),
                       ApplyDecodeLine(record, Head(code), wire, members, environment),
                       wire, members, environment)

IsOrLine(line) == line.kind = "or"

\* The emitted <message>_decode(dst_p, src_p, size); acc is the struct as it
\* stands when the "|=" lines have run and no sign extension has.
DecodeFunction(output, record, wire, size, environment) ==
    LET zero == [n \in DOMAIN record |-> {}]
    IN IF size < output.message_length
       THEN [ret |-> ErrorReturn(environment), rec |-> record, acc |-> record]
       ELSE [ret |-> 0,
             rec |-> RunDecodeCode(output.decode_code, zero, wire,
                                   output.members, environment),
             acc |-> RunDecodeCode(SelectSeq(output.decode_code, IsOrLine), zero,
                                   wire, output.members, environment)]

\* The emitted source compiles when every member it names is declared once.
Compiles(output) ==
    /\ \A i, j \in 1..Len(output.members) :
           output.members[i].name = output.members[j].name => i = j
    /\ \A k \in 1..Len(output.encode_code) :
           output.encode_code[k].name \in MemberNames(output.members)
    /\ \A k \in 1..Len(output.decode_code) :
           output.decode_code[k].name \in MemberNames(output.members)

(***************************************************************************)
(* The inputs: signals, messages, and the values a caller stores.          *)
(***************************************************************************)
Signal(name, start, length, byte_order, is_signed) ==
    [name            |-> name,
     start           |-> start,
     length          |-> length,
     byte_order      |-> byte_order,
     is_signed       |-> is_signed,
     is_float        |-> FALSE,
     is_multiplexer  |-> FALSE,
     multiplexer_ids |-> {}]

\* The signals the messages of Init are made of: the two fields of the
\* example message, fields sharing a byte, and one of each unsupported kind.
Catalogue ==
    { Signal("field_a", 0, 12, "little_endian", FALSE),
      Signal("field_b", 12, 4, "little_endian", FALSE),
      Signal("lo_nibble", 0, 4, "little_endian", TRUE),
      Signal("hi_nibble", 4, 4, "little_endian", FALSE),
      Signal("be_high", 7, 4, "big_endian", FALSE),
      Signal("be_low", 3, 4, "big_endian", TRUE),
      Signal("int_8", 8, 8, "little_endian", TRUE),
      [Signal("float_32", 16, 32, "little_endian", TRUE) EXCEPT !.is_float = TRUE],
      [Signal("mux", 8, 4, "little_endian", FALSE) EXCEPT !.is_multiplexer = TRUE],
      [Signal("muxed", 16, 8, "little_endian", FALSE) EXCEPT !.multiplexer_ids = {1}],
      Signal("wide_65", 0, MaxSignalLength + 1, "little_endian", FALSE) }

\* The index of the last byte a signal's segments touch.
LastIndex(signal) ==
    LET segs == SignalSegments(signal, FALSE)
    IN segs[Len(segs)].index

\* A message long enough to hold its signals (the loader's consistency check).
Message(signals) ==
    [length  |-> IF signals = << >>
                 THEN 1
                 ELSE SeqMax({LastIndex(signals[k]) : k \in 1..Len(signals)}) + 1,
     signals |-> signals]

\* Messages of up to MaxSignals distinct signals of the catalogue.
CatalogueMessages ==
    { Message(signals) :
        signals \in { f \in UNION { [1..n -> Catalogue] : n \in 0..MaxSignals } :
                        \A i, j \in DOMAIN f : f[i] = f[j] => i = j } }

\* Messages of one supported field: every start bit up to MaxStart, every
\* length, both byte orders, both signednesses.
FieldMessages ==
    { Message(<<Signal("field", start, length, byte_order, is_signed)>>) :
        start \in 0..MaxStart, length \in 1..MaxSignalLength,
        byte_order \in {"little_endian", "big_endian"}, is_signed \in BOOLEAN }

SignalNamed(msg, name) ==
    msg.signals[CHOOSE k \in 1..Len(msg.signals) : msg.signals[k].name = name]

SampleIds == {"zero", "ones", "msb", "alt", "x0ab", "x00c"}

\* A bit pattern of signal.length bits.
Sample(id, length) ==
    CASE id = "zero" -> {}
      [] id = "ones" -> 0 .. (length - 1)
      [] id = "msb"  -> {length - 1}
      [] id = "alt"  -> {b \in 0 .. (length - 1) : b % 2 = 0}
      [] id = "x0ab" -> BitsOf(171) \cap (0 .. (length - 1))
      [] id = "x00c" -> BitsOf(12) \cap (0 .. (length - 1))

\* The value a caller stores in the member for a pattern of length bits: the
\* pattern itself, sign-extended to the storage width for a signed member.
StoredValue(pattern, length, signed) ==
    IF signed /\ (length - 1) \in pattern
    THEN pattern \cup (length .. (TypeLength(length) - 1))
    ELSE pattern

NoOutput ==
    [raised |-> "none", warnings |-> << >>, members |-> << >>,
     encode_code |-> << >>, decode_code |-> << >>, message_length |-> 0]

NoEnvironment == [einval_defined |-> FALSE, wide_shift |-> "zero"]

Environments == [einval_defined : BOOLEAN, wide_shift : {"zero", "mod32"}]

InitWith(messages) ==
    /\ message \in messages
    /\ pc = "init"
    /\ out = NoOutput
    /\ env = NoEnvironment
    /\ src = << >>
    /\ dst0 = << >>
    /\ dst = << >>
    /\ enc_ret = 0
    /\ dec_size = 0
    /\ rec0 = << >>
    /\ rec = << >>
    /\ acc = << >>
    /\ dec_ret = 0
    /\ pending = {}
    /\ shuf = << >>

Init == InitWith(CatalogueMessages)

InitField == InitWith(FieldMessages)

(***************************************************************************)
(* The steps: generation, the build of the emitted source, and calls of    *)
(* the emitted encode and decode functions.                                *)
(***************************************************************************)
DoGenerateMessage ==
    /\ pc = "init"
    /\ out' = GenerateMessage(message)
    /\ pc' = IF out'.raised = "none" THEN "generated" ELSE "raised"
    /\ UNCHANGED <<message, env, src, dst0, dst, enc_ret, dec_size, rec0, rec, acc, dec_ret,
                   pending, shuf>>

CompileIn(environments) ==
    /\ pc = "generated"
    /\ \E e \in environments :
          /\ env' = e
          /\ pc' = IF Compiles(out) THEN "compiled" ELSE "compile_error"
    /\ UNCHANGED <<message, out, src, dst0, dst, enc_ret, dec_size, rec0, rec, acc, dec_ret,
                   pending, shuf>>

\* A call of the emitted encode function: the caller's struct holds one sample
\* per member, its buffer dst0 of size bytes holds prior content.
EncodeCall(sizes, priors) ==
    /\ pc = "compiled"
    /\ \E size \in sizes, prior \in priors,
          choice \in [MemberNames(out.members) -> SampleIds] :
          LET record == [n \in MemberNames(out.members) |->
                            LET signal == SignalNamed(message, n)
                            IN StoredValue(Sample(choice[n], signal.length),
                                           signal.length, signal.is_signed)]
              buf    == [i \in 0 .. (size - 1) |-> prior]
              r      == EncodeFunction(out, buf, record, size, env)
          IN /\ src' = record
             /\ dst0' = buf
             /\ dst' = r.dst
             /\ enc_ret' = r.ret
             /\ pending' = IF size < out.message_length
                           THEN {}
                           ELSE 1 .. Len(out.encode_code)
             /\ shuf' = ZeroFilled(buf, out.message_length)
    /\ pc' = "encoded"
    /\ UNCHANGED <<message, out, env, dec_size, rec0, rec, acc, dec_ret>>

\* One line of the encode body applied out of order to the zero-filled buffer.
EncodeStep ==
    /\ pc = "encoded"
    /\ \E k \in pending :
          /\ shuf' = ApplyEncodeLine(shuf, out.encode_code[k], src, out.members)
          /\ pending' = pending \ {k}
    /\ UNCHANGED <<message, pc, out, env, src, dst0, dst, enc_ret, dec_size, rec0, rec, acc, dec_ret>>

\* A call of the emitted decode function on the encoded buffer, or on its
\* first size bytes; the caller's struct rec0 holds prior content.
DecodeCall(sizes, priors) ==
    /\ pc = "encoded"
    /\ \E size \in {n \in sizes : n <= Cardinality(DOMAIN dst)}, prior \in priors :
          LET record == [n \in MemberNames(out.members) |->
                            prior \cap (0 .. (TypeWidth(MemberType(out.members, n)) - 1))]
              r      == DecodeFunction(out, record, dst, size, env)
          IN /\ dec_size' = size
             /\ rec0' = record
             /\ rec' = r.rec
             /\ acc' = r.acc
             /\ dec_ret' = r.ret
    /\ pc' = "decoded"
    /\ UNCHANGED <<message, out, env, src, dst0, dst, enc_ret, pending, shuf>>

Sizes == {n \in {message.length - 1, message.length} : n >= 0}

Compile == CompileIn(Environments)

Encode == EncodeCall(Sizes, {{}, 0 .. 7})

Decode == DecodeCall(Sizes, {{}, 0 .. 63})

Next == DoGenerateMessage \/ Compile \/ Encode \/ Decode

Spec == Init /\ [][Next]_vars

\* A build where the header's fallback EINVAL applies, and calls with a
\* zeroed buffer of exactly the message's length.
CompileField == CompileIn({e \in Environments : ~e.einval_defined})

EncodeExact == EncodeCall({message.length}, {{}})

DecodeExact == DecodeCall({message.length}, {{}})

NextField == DoGenerateMessage \/ CompileField \/ EncodeExact \/ DecodeExact

SpecField == InitField /\ [][NextField]_vars

\* The encode body's lines applied in every order.
NextOrder == DoGenerateMessage \/ CompileField \/ EncodeExact \/ EncodeStep

SpecOrder == Init /\ [][NextOrder]_vars

(***************************************************************************)
(* Definitions the properties are stated with.                             *)
(***************************************************************************)
\* What the specification calls a supported field.
Supported(signal) ==
    /\ ~signal.is_float
    /\ ~signal.is_multiplexer
    /\ signal.multiplexer_ids = {}
    /\ signal.length <= 64

\* The <<byte index, bit>> positions of a field under its byte order: a
\* little-endian field runs upwards from its start bit, a big-endian field
\* from its start bit down to bit 0 and on from bit 7 of the next byte.
FieldBits(signal) ==
    IF signal.byte_order = "big_endian"
    THEN { <<signal.start \div 8 + ((7 - (signal.start % 8)) + k) \div 8,
             7 - (((7 - (signal.start % 8)) + k) % 8)>> : k \in 0 .. (signal.length - 1) }
    ELSE { <<(signal.start + k) \div 8, (signal.start + k) % 8>> :
             k \in 0 .. (signal.length - 1) }

\* The positions a line's mask selects.
LineBits(line) == { <<line.index, b>> : b \in MaskBits(line.mask) }

RECURSIVE MaskBitCount(_)
MaskBitCount(lines) ==
    IF lines = << >>
    THEN 0
    ELSE Cardinality(MaskBits(Head(lines).mask)) + MaskBitCount(Tail(lines))

\* The smallest of the widths 8, 16, 32, 64 that holds length bits.
SmallestWidth(length) ==
    CHOOSE w \in {8, 16, 32, 64} :
        /\ w >= length
        /\ \A v \in {8, 16, 32, 64} : v >= length => w <= v

Generated == pc \notin {"init", "raised"}

TheField == message.signals[1]

OrLines == SelectSeq(out.decode_code, IsOrLine)

\* The position of a signal in the message's declaration order.
Declared(name) == CHOOSE k \in 1..Len(message.signals) : message.signals[k].name = name

(***************************************************************************)
(* C1: a value of bitLength bits that is encoded into a zero-filled buffer *)
(* and decoded again (sign extension included) comes back unchanged.       *)
(***************************************************************************)
C1_RoundTrip ==
    (pc = "decoded" /\ enc_ret = message.length /\ dec_ret = 0) => rec = src

(***************************************************************************)
(* C2: the example message (little-endian unsigned fieldA at bit 0, 12     *)
(* bits; fieldB at bit 12, 4 bits) encodes {fieldA=0x0AB, fieldB=0xC} to   *)
(* the bytes [0xAB, 0xCA], and decoding those bytes gives the record back. *)
(***************************************************************************)
ExampleMessage ==
    Message(<<Signal("field_a", 0, 12, "little_endian", FALSE),
              Signal("field_b", 12, 4, "little_endian", FALSE)>>)

ExampleRecord == [n \in {"field_a", "field_b"} |->
                     IF n = "field_a" THEN BitsOf(171) ELSE BitsOf(12)]

ExampleBytes == [i \in 0..1 |-> IF i = 0 THEN BitsOf(171) ELSE BitsOf(202)]

ExampleEncoded ==
    /\ message = ExampleMessage
    /\ pc \in {"encoded", "decoded"}
    /\ src = ExampleRecord
    /\ enc_ret = 2

C2_ExampleMessage ==
    ExampleEncoded =>
        /\ dst = ExampleBytes
        /\ DecodeFunction(out, [n \in DOMAIN src |-> {}], ExampleBytes, 2, env).rec
               = ExampleRecord

(***************************************************************************)
(* C3: the segments of a field lie at consecutive byte indices starting at *)
(* startBit div 8, the bit counts of their masks sum to bitLength, and the *)
(* positions their masks select are exactly the field's bit range under    *)
(* its byte order (no gap, no bit claimed twice).  Stated of the lines the *)
(* generator emits for the field, in both directions.                      *)
(***************************************************************************)
CoversField(lines, signal) ==
    /\ \A k \in 1..Len(lines) : lines[k].index = signal.start \div 8 + (k - 1)
    /\ MaskBitCount(lines) = signal.length
    /\ UNION { LineBits(lines[k]) : k \in 1..Len(lines) } = FieldBits(signal)

C3_ByteCoverage ==
    Generated => /\ CoversField(out.encode_code, TheField)
                 /\ CoversField(OrLines, TheField)

C3_Witness ==
    /\ pc = "generated"
    /\ TheField.byte_order = "big_endian"
    /\ TheField.start = 11
    /\ TheField.length = 64
    /\ Len(out.encode_code) = 9

(***************************************************************************)
(* C4: in a message with a rejected field next to supported ones, the      *)
(* record members and the encode and decode lines refer only to the        *)
(* supported fields, and one diagnostic is reported per rejected field.    *)
(***************************************************************************)
SupportedSignals == SelectSeq(message.signals, Supported)

C4_UnsupportedExclusion ==
    (/\ pc # "init"
     /\ \E k \in 1..Len(message.signals) : ~Supported(message.signals[k])
     /\ \E k \in 1..Len(message.signals) : Supported(message.signals[k])) =>
        /\ out.raised = "none"
        /\ Len(out.members) = Len(SupportedSignals)
        /\ \A k \in 1..Len(out.members) : out.members[k].name = SupportedSignals[k].name
        /\ \A k \in 1..Len(out.encode_code) :
               Supported(SignalNamed(message, out.encode_code[k].name))
        /\ \A k \in 1..Len(out.decode_code) :
               Supported(SignalNamed(message, out.decode_code[k].name))
        /\ Len(out.warnings) = Len(message.signals) - Len(SupportedSignals)

(***************************************************************************)
(* C5: with size < message.byteLength the emitted encode returns the       *)
(* negative EINVAL code and leaves the buffer as it was, and the emitted    *)
(* decode returns the same code and leaves the record as it was.           *)
(***************************************************************************)
C5_InsufficientBuffer ==
    /\ (pc \in {"encoded", "decoded"} /\ Cardinality(DOMAIN dst0) < message.length) =>
           (enc_ret = -EINVAL_ERRNO /\ dst = dst0)
    /\ (pc = "decoded" /\ dec_size < message.length) =>
           (dec_ret = -EINVAL_ERRNO /\ rec = rec0)

(***************************************************************************)
(* C6: when the accumulator of a signed field of L bits holds the L-bit    *)
(* pattern p, the value after the sign extension is p if bit L-1 of p is   *)
(* clear and p - 2^L in the storage width (p with the bits L and above     *)
(* set) if it is set.                                                      *)
(***************************************************************************)
C6_SignExtension ==
    (pc = "decoded" /\ dec_ret = 0 /\ TheField.is_signed
       /\ acc[TheField.name] \subseteq 0 .. (TheField.length - 1)) =>
        rec[TheField.name] =
            IF (TheField.length - 1) \in acc[TheField.name]
            THEN acc[TheField.name]
                 \cup (TheField.length .. (SmallestWidth(TheField.length) - 1))
            ELSE acc[TheField.name]

(***************************************************************************)
(* C7: two fields with disjoint bit ranges that share a byte both decode   *)
(* to the values encoded for them, and no encode line of one field touches *)
(* a bit of the other.                                                     *)
(***************************************************************************)
SharedBytePair ==
    /\ Len(message.signals) = 2
    /\ Supported(message.signals[1]) /\ Supported(message.signals[2])
    /\ FieldBits(message.signals[1]) \cap FieldBits(message.signals[2]) = {}
    /\ \E p \in FieldBits(message.signals[1]), q \in FieldBits(message.signals[2]) :
           p[1] = q[1]

C7_SharedByte ==
    (SharedBytePair /\ pc = "decoded" /\ enc_ret = message.length /\ dec_ret = 0) =>
        /\ rec = src
        /\ \A k \in 1..Len(out.encode_code) : \A j \in 1..2 :
               message.signals[j].name # out.encode_code[k].name =>
                   LineBits(out.encode_code[k]) \cap FieldBits(message.signals[j]) = {}

(***************************************************************************)
(* C8: for a message whose fields are all unsupported (or that has none)   *)
(* _generate_message completes, with no members, no encode line and no     *)
(* decode line.                                                            *)
(***************************************************************************)
C8_AllUnsupported ==
    (pc # "init" /\ \A k \in 1..Len(message.signals) : ~Supported(message.signals[k])) =>
        /\ out.raised = "none"
        /\ out.members = << >>
        /\ out.encode_code = << >>
        /\ out.decode_code = << >>

(***************************************************************************)
(* C9: the member type of a field of 1..64 bits has the smallest width of  *)
(* 8, 16, 32, 64 that holds bitLength, is signed exactly when the field    *)
(* is, and the decode lines of the field use that same width.              *)
(***************************************************************************)
C9_StorageType ==
    Generated =>
        /\ Len(out.members) = 1
        /\ TypeWidth(out.members[1].type_name) = SmallestWidth(TheField.length)
        /\ TypeSigned(out.members[1].type_name) = TheField.is_signed
        /\ \A k \in 1..Len(OrLines) :
               OrLines[k].type_length = SmallestWidth(TheField.length)

C9_Witness ==
    /\ pc = "generated"
    /\ TheField.length = 33
    /\ TheField.is_signed
    /\ out.members[1].type_name = "int64_t"
    /\ Len(OrLines) = 5

(***************************************************************************)
(* C10: the encode lines hold each segment of each field exactly once, in  *)
(* non-decreasing byte index, lines of the same byte in the fields'        *)
(* declaration order; and applying them in any other order gives the same  *)
(* buffer.                                                                 *)
(***************************************************************************)
SegmentLines ==
    UNION { { EncodeLine(message.signals[j], SignalSegments(message.signals[j], FALSE)[k]) :
                k \in 1..Len(SignalSegments(message.signals[j], FALSE)) } :
            j \in 1..Len(message.signals) }

C10_EncodeOrder ==
    /\ Generated =>
          /\ Len(out.encode_code) = Cardinality(SegmentLines)
          /\ { out.encode_code[k] : k \in 1..Len(out.encode_code) } = SegmentLines
          /\ \A i, j \in 1..Len(out.encode_code) :
                i < j => /\ out.encode_code[i].index <= out.encode_code[j].index
                         /\ out.encode_code[i].index = out.encode_code[j].index =>
                                Declared(out.encode_code[i].name)
                                    < Declared(out.encode_code[j].name)
    /\ (pc = "encoded" /\ pending = {}) => shuf = dst

C10_Witness ==
    /\ pc = "encoded"
    /\ pending = {}
    /\ Len(message.signals) = 2
    /\ message.signals[1].name = "field_b"
    /\ message.signals[2].name = "field_a"
    /\ Len(out.encode_code) = 3
    /\ src["field_a"] = 0 .. 11
    /\ shuf = dst
====
